---------------------------- MODULE Spec2Model ----------------------------
(***************************************************************************)
(* Model of the HP 3458A SN18 tooling:                                     *)
(*   - python/sn18_single3458.py : the ACAL acquisition campaign           *)
(*   - python/plot_sn18.py       : log parsing and watch mode              *)
(***************************************************************************)
EXTENDS Integers, Sequences, FiniteSets, TLC

(***************************************************************************)
(* Bounds                                                                  *)
(***************************************************************************)
\* run_hours (720 in the script) scaled down
RunHours == 3

\* number of modifications of the watched file
MaxEvents == 3

\* size of the log files given to the parsers
MaxLines == 2
MaxSegs == 2
MaxCols == 2
MaxSkip == 1

\* length of the file texts given to detect_format
MaxChars == 4

\* number of records of the datasets given to the analysis
MaxSamples == 3

(***************************************************************************)
(* sn18_single3458.py : fixed command sequences                            *)
(***************************************************************************)
SetupCmds == <<"RESET", "END ALWAYS", "PRESET NORM", "OFORMAT ASCII", "ID?">>

PreQueries == <<"TEMP?", "CAL? 1,1", "CAL? 2,1", "CAL? 72">>

PostQueries ==
  <<"TEMP?", "CAL? 1,1", "CAL? 2,1", "CAL? 78", "CAL? 79", "CAL? 70",
    "CAL? 86", "CAL? 87", "CAL? 176", "CAL? 59", "CAL? 97", "CAL? 72">>

\* timegap = 3600: seconds between the starts of two cycles (line 30)
timegap == 3600

\* time.sleep(860): seconds the script waits for ACAL ALL (line 118)
WaitSeconds == 860

VARIABLES
  pc,         \* position of the acquisition script
  cycles,     \* loop variable of `for cycles in range(0, run_hours)`
  qi,         \* index of the next command inside the current command sequence
  stage,      \* "setup" (lines 35-46) or "loop" (lines 106-126)
  adapters,   \* number of Prologix adapter sessions currently open
  insts,      \* number of Instrument sessions currently open
  logOpen,    \* number of open handles of the log file
  buf,        \* text written to the open handle and not yet flushed
  disk,       \* content of the log file
  exc,        \* TRUE while an exception propagates through the with-blocks
  \* observation (history) variables of the acquisition script
  trace,      \* commands, sleeps and writes of the current cycle, in order
  raisedAt,   \* where the exception of the current cycle was raised, or "none"
  diskBefore, \* content of the log file when the current cycle started
  okCycles,   \* cycles whose session block ended without an exception
  started,    \* cycles started
  caught,     \* exceptions reported by the per-cycle handler
  outside,    \* an exception was raised outside the per-cycle session block
  statusLines, \* "ACAL cycle %d done" lines printed
  elapsed,    \* seconds slept since the current cycle started
  reported    \* "Error in initial setup" lines printed

acqVars == <<pc, cycles, qi, stage, adapters, insts, logOpen, buf, disk, exc,
             trace, raisedAt, diskBefore, okCycles, started, caught, outside,
             statusLines, elapsed, reported>>

VARIABLES
  wMonitor,   \* args.monitor
  wCsv,       \* the watched path ends with ".csv"
  mainThr,    \* position of the main thread of plot_sn18.py
  obsThr,     \* obsThr[i]: position of the dispatch thread of observer i
  obsQueue,   \* obsQueue[i]: events queued in observer i, oldest first
  obsCur,     \* obsCur[i]: event being handled by observer i, or 0
  stopped,    \* observer.stop() was called on the main thread's observer
  nEvents,    \* modifications of the file so far
  detected,   \* detected[e]: some observer was watching when event e happened
  calls       \* calls[e]: invocations of main() made for event e

watchVars == <<wMonitor, wCsv, mainThr, obsThr, obsQueue, obsCur, stopped,
               nEvents, detected, calls>>

VARIABLES
  pFile,      \* the log file read by the parsers
  pSkip,      \* args.skip_rows
  pResult     \* what the parser returned (or that it raised)

parseVars == <<pFile, pSkip, pResult>>

VARIABLES
  dText,      \* characters of the file given to detect_format
  dResult     \* what detect_format returned, or "none"

detVars == <<dText, dResult>>

VARIABLES
  aAuto,      \* args.auto_tempco
  aTemp,      \* parsed_data['TEMP']
  aCal,       \* parsed_data['CAL_72']
  vPc,        \* position of main() in the deviation computation
  sTempDiffs, \* temp_diffs of find_best_tempco
  sPpm,       \* ppm_72 of find_best_tempco
  mTempDiff,  \* temp_diff of main
  mPpm        \* ppm_72 of main

devVars == <<aAuto, aTemp, aCal, vPc, sTempDiffs, sPpm, mTempDiff, mPpm>>

VARIABLES
  gTemp,      \* parsed_data['TEMP'] given to find_best_tempco
  gPpm,       \* ppm_72 after line 68, in units of 1/2000 ppm
  gPc,        \* position inside find_best_tempco
  gIdx,       \* index of the next candidate of np.arange
  gBest,      \* best_tempco, in units of 0.001
  gMin,       \* min_variance
  gResult,    \* value returned by the latest invocation, in units of 0.0001
  gRun,       \* number of the invocation in progress
  gFirst      \* value returned by the first invocation

gridVars == <<gTemp, gPpm, gPc, gIdx, gBest, gMin, gResult, gRun, gFirst>>

vars == <<acqVars, watchVars, parseVars, detVars, devVars, gridVars>>

\* the other programs do not run while the acquisition script is modelled
AcqFrame == UNCHANGED <<watchVars, parseVars, detVars, devVars, gridVars>>

(***************************************************************************)
(* Log text.  One files.write() call appends one field followed by its     *)
(* terminator; the value read in cycle c is represented by c.              *)
(***************************************************************************)
Field(label, val, sep) == [label |-> label, val |-> val, sep |-> sep]

\* separators written by log_data_after after the i-th post-read reply
PostSep(i) == IF i = Len(PostQueries) THEN "\n" ELSE ","

\* ordered labels of a complete record: timestamp, then the twelve replies
Schema == <<"TIME">> \o PostQueries

IsPrefix(s, t) == Len(s) <= Len(t) /\ SubSeq(t, 1, Len(s)) = s

\* the lines of a text, as a reader splits it: a line ends after "\n", and
\* a trailing unterminated fragment is a line too
RECURSIVE Lines(_)
Lines(text) ==
  IF text = << >> THEN << >>
  ELSE LET ends == {i \in 1..Len(text) : text[i].sep = "\n"}
           e == IF ends = {} THEN Len(text)
                ELSE CHOOSE i \in ends : \A j \in ends : i <= j
       IN <<SubSeq(text, 1, e)>> \o Lines(SubSeq(text, e + 1, Len(text)))

Labels(line) == [i \in 1..Len(line) |-> line[i].label]

CompleteRecord(line) ==
  /\ Labels(line) = Schema
  /\ \A i \in 1..Len(line) : line[i].sep = (IF i = Len(line) THEN "\n" ELSE ",")

(***************************************************************************)
(* Initial state: the script starts at the outer try (line 35)             *)
(***************************************************************************)
AcqInit ==
  /\ pc = "open_adapter"
  /\ cycles = 0
  /\ qi = 1
  /\ stage = "setup"
  /\ adapters = 0
  /\ insts = 0
  /\ logOpen = 0
  /\ buf = << >>
  /\ disk = << >>
  /\ exc = FALSE
  /\ trace = << >>
  /\ raisedAt = "none"
  /\ diskBefore = << >>
  /\ okCycles = 0
  /\ started = 0
  /\ caught = 0
  /\ outside = FALSE
  /\ statusLines = 0
  /\ elapsed = 0
  /\ reported = 0

(***************************************************************************)
(* Exceptions.  An exception raised inside a with-block runs the __exit__  *)
(* of every enclosing with-block before it reaches its handler.            *)
(***************************************************************************)
\* variant without the per-cycle try: every exception reaches the outer handler
HandlerOfOuterOnly(st) == "except_setup"

\* the except clause that receives an exception of the session block
HandlerOf(st) == IF st = "setup" THEN "except_setup" ELSE "except_cycle"

\* where the script continues when the session block ends normally
AfterSession(st) == IF st = "setup" THEN "for" ELSE "close_log"

Raise(where) ==
  /\ exc' = TRUE
  /\ raisedAt' = where
  /\ outside' = (outside \/ stage = "setup" \/ where = "open_log")

NoRaise == UNCHANGED <<exc, raisedAt, outside>>

\* events of the current cycle are recorded in the loop only
Record(evs) == trace' = (IF stage = "loop" THEN trace \o evs ELSE trace)

(***************************************************************************)
(* with Prologix(ip_addr) as adapter:            (lines 36 and 110)        *)
(***************************************************************************)
OpenAdapter ==
  /\ pc = "open_adapter"
  /\ AcqFrame
  /\ \E ok \in BOOLEAN :
       IF ok
       THEN /\ adapters' = adapters + 1
            /\ pc' = "open_inst"
            /\ NoRaise
       ELSE /\ Raise("open_adapter")
            /\ pc' = HandlerOf(stage)
            /\ UNCHANGED adapters
  /\ UNCHANGED <<cycles, qi, stage, insts, logOpen, buf, disk, trace,
                 diskBefore, okCycles, started, caught, statusLines>>
  /\ UNCHANGED <<elapsed, reported>>

(***************************************************************************)
(* with Instrument(adapter, int(dmm1_gpib_addr)) as inst: (lines 37, 111)  *)
(***************************************************************************)
OpenInstrument ==
  /\ pc = "open_inst"
  /\ AcqFrame
  /\ \E ok \in BOOLEAN :
       IF ok
       THEN /\ insts' = insts + 1
            /\ pc' = (IF stage = "setup" THEN "setup_cmd" ELSE "pre")
            /\ NoRaise
       ELSE /\ Raise("open_inst")
            /\ pc' = "exit_adapter"
            /\ UNCHANGED insts
  /\ qi' = 1
  /\ UNCHANGED <<cycles, stage, adapters, logOpen, buf, disk, trace,
                 diskBefore, okCycles, started, caught, statusLines>>
  /\ UNCHANGED <<elapsed, reported>>

(***************************************************************************)
(* Initial setup: RESET .. ID?                    (lines 41-46)            *)
(***************************************************************************)
SetupCmd ==
  /\ pc = "setup_cmd"
  /\ AcqFrame
  /\ \E ok \in BOOLEAN :
       IF ok
       THEN /\ IF qi < Len(SetupCmds)
               THEN qi' = qi + 1 /\ pc' = pc
               ELSE qi' = 1 /\ pc' = "exit_inst"
            /\ NoRaise
       ELSE /\ Raise("setup_cmd")
            /\ pc' = "exit_inst"
            /\ UNCHANGED qi
  /\ UNCHANGED <<cycles, stage, adapters, insts, logOpen, buf, disk, trace,
                 diskBefore, okCycles, started, caught, statusLines>>
  /\ UNCHANGED <<elapsed, reported>>

(***************************************************************************)
(* Leaving the with-blocks, normally or with an exception in flight        *)
(***************************************************************************)
ExitInstrument ==
  /\ pc = "exit_inst"
  /\ AcqFrame
  /\ insts' = insts - 1
  /\ pc' = "exit_adapter"
  /\ UNCHANGED <<cycles, qi, stage, adapters, logOpen, buf, disk, exc, trace,
                 raisedAt, diskBefore, okCycles, started, caught, outside,
                 statusLines>>
  /\ UNCHANGED <<elapsed, reported>>

\* variant whose adapter is closed on the normal path only
ExitAdapterLeak ==
  /\ pc = "exit_adapter"
  /\ AcqFrame
  /\ adapters' = (IF exc THEN adapters ELSE adapters - 1)
  /\ pc' = (IF exc THEN HandlerOf(stage) ELSE AfterSession(stage))
  /\ stage' = (IF exc THEN stage ELSE "loop")
  /\ okCycles' = (IF ~exc /\ stage = "loop" THEN okCycles + 1 ELSE okCycles)
  /\ UNCHANGED <<cycles, qi, insts, logOpen, buf, disk, exc, trace, raisedAt,
                 diskBefore, started, caught, outside, statusLines>>
  /\ UNCHANGED <<elapsed, reported>>

ExitAdapter ==
  /\ pc = "exit_adapter"
  /\ AcqFrame
  /\ adapters' = adapters - 1
  /\ pc' = (IF exc THEN HandlerOf(stage) ELSE AfterSession(stage))
  /\ stage' = (IF exc THEN stage ELSE "loop")
  /\ okCycles' = (IF ~exc /\ stage = "loop" THEN okCycles + 1 ELSE okCycles)
  /\ UNCHANGED <<cycles, qi, insts, logOpen, buf, disk, exc, trace, raisedAt,
                 diskBefore, started, caught, outside, statusLines>>
  /\ UNCHANGED <<elapsed, reported>>

(***************************************************************************)
(* for cycles in range(0, run_hours):             (line 106)               *)
(***************************************************************************)
ForLoop ==
  /\ pc = "for"
  /\ AcqFrame
  /\ IF started < RunHours
     THEN /\ cycles' = started
          /\ started' = started + 1
          /\ trace' = << >>
          /\ raisedAt' = "none"
          /\ elapsed' = 0
          /\ pc' = "open_log"
     ELSE /\ pc' = "all_done"
          /\ UNCHANGED <<cycles, started, trace, raisedAt, elapsed>>
  /\ UNCHANGED <<qi, stage, adapters, insts, logOpen, buf, disk, exc,
                 diskBefore, okCycles, caught, outside, statusLines>>
  /\ UNCHANGED reported

(***************************************************************************)
(* with open(filename1, 'a') as o1:               (line 107)               *)
(***************************************************************************)
\* variant opening the log with mode 'w'
OpenLogTruncate ==
  /\ pc = "open_log"
  /\ AcqFrame
  /\ \E ok \in BOOLEAN :
       IF ok
       THEN /\ logOpen' = logOpen + 1
            /\ diskBefore' = disk
            /\ disk' = << >>
            /\ pc' = "open_adapter"
            /\ NoRaise
       ELSE /\ Raise("open_log")
            /\ pc' = "except_setup"
            /\ UNCHANGED <<logOpen, diskBefore, disk>>
  /\ UNCHANGED <<cycles, qi, stage, adapters, insts, buf, trace,
                 okCycles, started, caught, statusLines>>
  /\ UNCHANGED <<elapsed, reported>>

\* variant whose open() is inside the per-cycle try
OpenLogCaught ==
  /\ pc = "open_log"
  /\ AcqFrame
  /\ \E ok \in BOOLEAN :
       IF ok
       THEN /\ logOpen' = logOpen + 1
            /\ diskBefore' = disk
            /\ pc' = "open_adapter"
            /\ NoRaise
       ELSE /\ Raise("open_log")
            /\ pc' = "except_cycle"
            /\ UNCHANGED <<logOpen, diskBefore>>
  /\ UNCHANGED <<cycles, qi, stage, adapters, insts, buf, disk, trace,
                 okCycles, started, caught, statusLines>>
  /\ UNCHANGED <<elapsed, reported>>

OpenLog ==
  /\ pc = "open_log"
  /\ AcqFrame
  /\ \E ok \in BOOLEAN :
       IF ok
       THEN /\ logOpen' = logOpen + 1
            /\ diskBefore' = disk
            /\ pc' = "open_adapter"
            /\ NoRaise
       ELSE /\ Raise("open_log")
            /\ pc' = "except_setup"
            /\ UNCHANGED <<logOpen, diskBefore>>
  /\ UNCHANGED <<cycles, qi, stage, adapters, insts, buf, disk, trace,
                 okCycles, started, caught, statusLines>>
  /\ UNCHANGED <<elapsed, reported>>

(***************************************************************************)
(* log_data_pre(inst, o1, "3458A")                (lines 49-54, 114)       *)
(***************************************************************************)
\* variant that reports a failing pre-read query and goes on
PreReadTolerant ==
  /\ pc = "pre"
  /\ AcqFrame
  /\ Record(<<PreQueries[qi]>>)
  /\ \E ok \in BOOLEAN :
       /\ IF qi < Len(PreQueries)
          THEN qi' = qi + 1 /\ pc' = pc
          ELSE qi' = 1 /\ pc' = "trigger"
       /\ raisedAt' = (IF ok THEN raisedAt ELSE "pre")
       /\ UNCHANGED <<exc, outside>>
  /\ UNCHANGED <<cycles, stage, adapters, insts, logOpen, buf, disk,
                 diskBefore, okCycles, started, caught, statusLines>>
  /\ UNCHANGED <<elapsed, reported>>

PreRead ==
  /\ pc = "pre"
  /\ AcqFrame
  /\ Record(<<PreQueries[qi]>>)
  /\ \E ok \in BOOLEAN :
       IF ok
       THEN /\ IF qi < Len(PreQueries)
               THEN qi' = qi + 1 /\ pc' = pc
               ELSE qi' = 1 /\ pc' = "trigger"
            /\ NoRaise
       ELSE /\ Raise("pre")
            /\ pc' = "exit_inst"
            /\ UNCHANGED qi
  /\ UNCHANGED <<cycles, stage, adapters, insts, logOpen, buf, disk,
                 diskBefore, okCycles, started, caught, statusLines>>
  /\ UNCHANGED <<elapsed, reported>>

(***************************************************************************)
(* inst.cmd("ACAL ALL")                           (line 117)               *)
(***************************************************************************)
\* variant that reads the constants right after the trigger, without waiting
TriggerNoWait ==
  /\ pc = "trigger"
  /\ AcqFrame
  /\ Record(<<"ACAL ALL">>)
  /\ \E ok \in BOOLEAN :
       IF ok
       THEN pc' = "post_ts" /\ NoRaise
       ELSE Raise("trigger") /\ pc' = "exit_inst"
  /\ UNCHANGED <<cycles, qi, stage, adapters, insts, logOpen, buf, disk,
                 diskBefore, okCycles, started, caught, statusLines>>
  /\ UNCHANGED <<elapsed, reported>>

Trigger ==
  /\ pc = "trigger"
  /\ AcqFrame
  /\ Record(<<"ACAL ALL">>)
  /\ \E ok \in BOOLEAN :
       IF ok
       THEN pc' = "wait" /\ NoRaise
       ELSE Raise("trigger") /\ pc' = "exit_inst"
  /\ UNCHANGED <<cycles, qi, stage, adapters, insts, logOpen, buf, disk,
                 diskBefore, okCycles, started, caught, statusLines>>
  /\ UNCHANGED <<elapsed, reported>>

(***************************************************************************)
(* time.sleep(860)                                (line 118)               *)
(***************************************************************************)
Wait ==
  /\ pc = "wait"
  /\ AcqFrame
  /\ Record(<<"sleep">>)
  /\ pc' = "post_ts"
  /\ UNCHANGED <<cycles, qi, stage, adapters, insts, logOpen, buf, disk, exc,
                 raisedAt, diskBefore, okCycles, started, caught, outside,
                 statusLines>>
  /\ elapsed' = elapsed + WaitSeconds
  /\ UNCHANGED reported

(***************************************************************************)
(* log_data_after(inst, o1, "3458A")              (lines 57-104, 121)      *)
(***************************************************************************)
\* files.write(time.strftime("%d/%m/%Y-%H:%M:%S,"))
PostTimestamp ==
  /\ pc = "post_ts"
  /\ AcqFrame
  /\ buf' = Append(buf, Field("TIME", cycles, ","))
  /\ Record(<<"write">>)
  /\ pc' = "post"
  /\ qi' = 1
  /\ UNCHANGED <<cycles, stage, adapters, insts, logOpen, disk, exc, raisedAt,
                 diskBefore, okCycles, started, caught, outside, statusLines>>
  /\ UNCHANGED <<elapsed, reported>>

\* data = ins.cmd(q, reply=True).decode().strip() ; files.write(data + sep)
PostRead ==
  /\ pc = "post"
  /\ AcqFrame
  /\ \E ok \in BOOLEAN :
       IF ok
       THEN /\ buf' = Append(buf, Field(PostQueries[qi], cycles, PostSep(qi)))
            /\ Record(<<PostQueries[qi], "write">>)
            /\ IF qi < Len(PostQueries)
               THEN qi' = qi + 1 /\ pc' = pc
               ELSE qi' = 1 /\ pc' = "disp_off"
            /\ NoRaise
       ELSE /\ Raise("post")
            /\ Record(<<PostQueries[qi]>>)
            /\ pc' = "exit_inst"
            /\ UNCHANGED <<buf, qi>>
  /\ UNCHANGED <<cycles, stage, adapters, insts, logOpen, disk, diskBefore,
                 okCycles, started, caught, statusLines>>
  /\ UNCHANGED <<elapsed, reported>>

\* ins.cmd("DISP OFF")
DispOff ==
  /\ pc = "disp_off"
  /\ AcqFrame
  /\ Record(<<"DISP OFF">>)
  /\ \E ok \in BOOLEAN :
       IF ok
       THEN pc' = "exit_inst" /\ NoRaise
       ELSE Raise("disp_off") /\ pc' = "exit_inst"
  /\ UNCHANGED <<cycles, qi, stage, adapters, insts, logOpen, buf, disk,
                 diskBefore, okCycles, started, caught, statusLines>>
  /\ UNCHANGED <<elapsed, reported>>

(***************************************************************************)
(* except Exception as e: print("Error during ACAL cycle")  (lines 122-123)*)
(***************************************************************************)
ExceptCycle ==
  /\ pc = "except_cycle"
  /\ AcqFrame
  /\ exc' = FALSE
  /\ caught' = caught + 1
  /\ pc' = "close_log"
  /\ UNCHANGED <<cycles, qi, stage, adapters, insts, logOpen, buf, disk, trace,
                 raisedAt, diskBefore, okCycles, started, outside, statusLines>>
  /\ UNCHANGED <<elapsed, reported>>

(***************************************************************************)
(* end of `with open(...) as o1`: the handle is flushed and closed         *)
(***************************************************************************)
CloseLog ==
  /\ pc = "close_log"
  /\ AcqFrame
  /\ disk' = disk \o buf
  /\ buf' = << >>
  /\ logOpen' = logOpen - 1
  /\ pc' = "status"
  /\ UNCHANGED <<cycles, qi, stage, adapters, insts, exc, trace, raisedAt,
                 diskBefore, okCycles, started, caught, outside, statusLines>>
  /\ UNCHANGED <<elapsed, reported>>

(***************************************************************************)
(* print(" -i- ACAL cycle %d done")               (line 125)               *)
(***************************************************************************)
Status ==
  /\ pc = "status"
  /\ AcqFrame
  /\ statusLines' = statusLines + 1
  /\ pc' = "sleep"
  /\ UNCHANGED <<cycles, qi, stage, adapters, insts, logOpen, buf, disk, exc,
                 trace, raisedAt, diskBefore, okCycles, started, caught,
                 outside>>
  /\ UNCHANGED <<elapsed, reported>>

(***************************************************************************)
(* time.sleep(timegap - 860)                      (line 126)               *)
(***************************************************************************)
Sleep ==
  /\ pc = "sleep"
  /\ AcqFrame
  /\ pc' = "for"
  /\ UNCHANGED <<cycles, qi, stage, adapters, insts, logOpen, buf, disk, exc,
                 trace, raisedAt, diskBefore, okCycles, started, caught,
                 outside, statusLines>>
  /\ elapsed' = elapsed + (timegap - WaitSeconds)
  /\ UNCHANGED reported

(***************************************************************************)
(* except Exception as e: print("Error in initial setup")  (lines 128-129) *)
(***************************************************************************)
\* variant of the outer handler that goes on to the campaign loop
ExceptSetupContinue ==
  /\ pc = "except_setup"
  /\ AcqFrame
  /\ exc' = FALSE
  /\ pc' = "for"
  /\ reported' = reported + 1
  /\ UNCHANGED <<cycles, qi, stage, adapters, insts, logOpen, buf, disk, trace,
                 raisedAt, diskBefore, okCycles, started, caught, outside,
                 statusLines, elapsed>>

ExceptSetup ==
  /\ pc = "except_setup"
  /\ AcqFrame
  /\ exc' = FALSE
  /\ pc' = "all_done"
  /\ UNCHANGED <<cycles, qi, stage, adapters, insts, logOpen, buf, disk, trace,
                 raisedAt, diskBefore, okCycles, started, caught, outside,
                 statusLines>>
  /\ reported' = reported + 1
  /\ UNCHANGED elapsed

(***************************************************************************)
(* print("All done! ...")                         (line 131)               *)
(***************************************************************************)
AllDone ==
  /\ pc = "all_done"
  /\ AcqFrame
  /\ pc' = "exited"
  /\ UNCHANGED <<cycles, qi, stage, adapters, insts, logOpen, buf, disk, exc,
                 trace, raisedAt, diskBefore, okCycles, started, caught,
                 outside, statusLines>>
  /\ UNCHANGED <<elapsed, reported>>

(***************************************************************************)
(* plot_sn18.py : watch mode (main, FileChangeHandler, monitor_file)       *)
(* Each watchdog Observer owns one dispatch thread that takes the events   *)
(* of its queue one at a time and calls on_modified in that thread.        *)
(***************************************************************************)
Observers == 1..Len(obsThr)

\* dispatch threads that are inside on_modified or the main() it called
InCallback == {i \in Observers : obsThr[i] # "idle"}

\* dispatch threads inside a main() invocation that has not returned
InMain == {i \in Observers : obsThr[i] \in {"main", "monitor_file", "loop"}}

WatchIdle ==
  /\ wMonitor = FALSE
  /\ wCsv = FALSE
  /\ mainThr = "exit"
  /\ obsThr = << >>
  /\ obsQueue = << >>
  /\ obsCur = << >>
  /\ stopped = FALSE
  /\ nEvents = 0
  /\ detected = << >>
  /\ calls = << >>

\* `python plot_sn18.py <file> [--monitor]` is started
WatchInit ==
  /\ wMonitor \in BOOLEAN
  /\ wCsv \in BOOLEAN
  /\ mainThr = "main"
  /\ obsThr = << >>
  /\ obsQueue = << >>
  /\ obsCur = << >>
  /\ stopped = FALSE
  /\ nEvents = 0
  /\ detected = << >>
  /\ calls = << >>

AcqIdle ==
  /\ pc = "exited"
  /\ cycles = 0
  /\ qi = 1
  /\ stage = "loop"
  /\ adapters = 0
  /\ insts = 0
  /\ logOpen = 0
  /\ buf = << >>
  /\ disk = << >>
  /\ exc = FALSE
  /\ trace = << >>
  /\ raisedAt = "none"
  /\ diskBefore = << >>
  /\ okCycles = 0
  /\ started = 0
  /\ caught = 0
  /\ outside = FALSE
  /\ statusLines = 0
  /\ elapsed = 0
  /\ reported = 0

WatchFrame == UNCHANGED <<acqVars, parseVars, detVars, devVars, gridVars>>

\* main() up to and including plot_data (lines 126-158), on the main thread
MainBody ==
  /\ mainThr = "main"
  /\ mainThr' = (IF wMonitor THEN "monitor_file" ELSE "exit")
  /\ WatchFrame
  /\ UNCHANGED <<wMonitor, wCsv, obsThr, obsQueue, obsCur, stopped, nEvents,
                 detected, calls>>

\* monitor_file: Observer(), schedule, start, then `while True: sleep(1)`
StartObserver ==
  /\ obsThr' = Append(obsThr, "idle")
  /\ obsQueue' = Append(obsQueue, << >>)
  /\ obsCur' = Append(obsCur, 0)

MonitorFile ==
  /\ mainThr = "monitor_file"
  /\ StartObserver
  /\ mainThr' = "loop"
  /\ WatchFrame
  /\ UNCHANGED <<wMonitor, wCsv, stopped, nEvents, detected, calls>>

\* the file is modified: every running observer queues one event
FileModified ==
  /\ nEvents < MaxEvents
  /\ mainThr # "exit"
  /\ nEvents' = nEvents + 1
  /\ obsQueue' = [i \in Observers |->
                    IF i = 1 /\ stopped THEN obsQueue[i]
                    ELSE Append(obsQueue[i], nEvents + 1)]
  /\ detected' = Append(detected, \E i \in Observers : ~(i = 1 /\ stopped))
  /\ calls' = Append(calls, 0)
  /\ WatchFrame
  /\ UNCHANGED <<wMonitor, wCsv, mainThr, obsThr, obsCur, stopped>>

\* the dispatch thread of observer i takes the next event of its queue
Dispatch(i) ==
  /\ obsThr[i] = "idle"
  /\ obsQueue[i] # << >>
  /\ ~(i = 1 /\ stopped)
  /\ obsCur' = [obsCur EXCEPT ![i] = Head(obsQueue[i])]
  /\ obsQueue' = [obsQueue EXCEPT ![i] = Tail(obsQueue[i])]
  /\ obsThr' = [obsThr EXCEPT ![i] = "on_modified"]
  /\ WatchFrame
  /\ UNCHANGED <<wMonitor, wCsv, mainThr, stopped, nEvents, detected, calls>>

\* FileChangeHandler.on_modified (lines 164-167)
OnModified(i) ==
  /\ obsThr[i] = "on_modified"
  /\ IF wCsv
     THEN /\ calls' = [calls EXCEPT ![obsCur[i]] = @ + 1]
          /\ obsThr' = [obsThr EXCEPT ![i] = "main"]
          /\ UNCHANGED obsCur
     ELSE /\ obsThr' = [obsThr EXCEPT ![i] = "idle"]
          /\ obsCur' = [obsCur EXCEPT ![i] = 0]
          /\ UNCHANGED calls
  /\ WatchFrame
  /\ UNCHANGED <<wMonitor, wCsv, mainThr, obsQueue, stopped, nEvents, detected>>

\* main() called by on_modified, up to and including plot_data
CallbackMainBody(i) ==
  /\ obsThr[i] = "main"
  /\ IF wMonitor
     THEN obsThr' = [obsThr EXCEPT ![i] = "monitor_file"] /\ UNCHANGED obsCur
     ELSE /\ obsThr' = [obsThr EXCEPT ![i] = "idle"]
          /\ obsCur' = [obsCur EXCEPT ![i] = 0]
  /\ WatchFrame
  /\ UNCHANGED <<wMonitor, wCsv, mainThr, obsQueue, stopped, nEvents,
                 detected, calls>>

\* monitor_file called by that main(): it starts one more observer and the
\* dispatch thread stays in `while True: sleep(1)`
CallbackMonitorFile(i) ==
  /\ obsThr[i] = "monitor_file"
  /\ obsThr' = Append([obsThr EXCEPT ![i] = "loop"], "idle")
  /\ obsQueue' = Append(obsQueue, << >>)
  /\ obsCur' = Append(obsCur, 0)
  /\ WatchFrame
  /\ UNCHANGED <<wMonitor, wCsv, mainThr, stopped, nEvents, detected, calls>>

\* KeyboardInterrupt in the main thread's loop: observer.stop() (line 179)
Interrupt ==
  /\ mainThr = "loop"
  /\ stopped' = TRUE
  /\ mainThr' = "join"
  /\ WatchFrame
  /\ UNCHANGED <<wMonitor, wCsv, obsThr, obsQueue, obsCur, nEvents, detected,
                 calls>>

\* observer.join() (line 180) returns once the dispatch thread has ended
Join ==
  /\ mainThr = "join"
  /\ obsThr[1] = "idle"
  /\ mainThr' = "exit"
  /\ WatchFrame
  /\ UNCHANGED <<wMonitor, wCsv, obsThr, obsQueue, obsCur, stopped, nEvents,
                 detected, calls>>

WatchNext ==
  \/ MainBody
  \/ MonitorFile
  \/ FileModified
  \/ \E i \in Observers : Dispatch(i)
  \/ \E i \in Observers : OnModified(i)
  \/ \E i \in Observers : CallbackMainBody(i)
  \/ \E i \in Observers : CallbackMonitorFile(i)
  \/ Interrupt
  \/ Join

(***************************************************************************)
(* plot_sn18.py : the parsers                                              *)
(***************************************************************************)
SeqsUpTo(S, n) == UNION {[1..k -> S] : k \in 0..n}

NoValue == [kind |-> "none", text |-> ""]

\* texts that float() accepts, among the cell texts of the model
NumericText == {"1.5"}

\* try_convert (lines 57-63); NoValue stands for None
TryConvert(value) ==
  IF value = NoValue THEN NoValue
  ELSE IF value.text \in NumericText
       THEN [kind |-> "float", text |-> value.text]
       ELSE value

Cell(t) == [kind |-> "text", text |-> t]

Raised == [status |-> "error", data |-> << >>]

Returned(d) == [status |-> "ok", data |-> d]

\* csv.DictReader: the value a row gives to header name k.  zip() pairs
\* names and cells (a later duplicate name wins), and the names beyond the
\* end of a short row get restval = None.
RowValue(header, row, k) ==
  LET J == {j \in 1..Len(header) : header[j] = k}
      m == CHOOSE j \in J : \A i \in J : i <= j
  IN IF m > Len(row) THEN NoValue ELSE row[m]

RECURSIVE NonBlank(_)
\* csv.DictReader skips the rows without any cell
NonBlank(rows) ==
  IF rows = << >> THEN << >>
  ELSE (IF Head(rows) = << >> THEN << >> ELSE <<Head(rows)>>)
       \o NonBlank(Tail(rows))

\* parse_csv_to_dict (lines 13-28); rows is the csv.reader view of the
\* file: one sequence of cells per line
ParseCsvToDict(rows, skip) ==
  IF rows = << >> THEN Raised            \* fieldnames is None
  ELSE
    LET header == Head(rows)
        data == NonBlank(Tail(rows))
        kept == SubSeq(data, skip + 1, Len(data))
        names == {header[j] : j \in 1..Len(header)}
    IN IF \E i \in 1..Len(kept) : Len(kept[i]) > Len(header)
       THEN Raised                       \* data_dict[None]: KeyError
       ELSE Returned([k \in names |->
              [i \in 1..Len(kept) |-> TryConvert(RowValue(header, kept[i], k))]])

\* Segments of a pipe-segmented line, by what the parser looks at:
\*   temp  : the segment contains 'TEMP?'
\*   cal   : the segment contains 'CAL? 72'
\*   semis : number of ';' in the segment
\*   value : the text after the first '=' parses as a float
TempSeg == [temp |-> TRUE, cal |-> FALSE, semis |-> 1, value |-> TRUE]
CalSeg == [temp |-> FALSE, cal |-> TRUE, semis |-> 0, value |-> TRUE]
BothSeg == [temp |-> TRUE, cal |-> TRUE, semis |-> 1, value |-> TRUE]
OtherSeg == [temp |-> FALSE, cal |-> FALSE, semis |-> 0, value |-> TRUE]
BadTempSeg == [temp |-> TRUE, cal |-> FALSE, semis |-> 0, value |-> TRUE]
BadCalSeg == [temp |-> FALSE, cal |-> TRUE, semis |-> 0, value |-> FALSE]

Segments == {TempSeg, CalSeg, BothSeg, OtherSeg, BadTempSeg, BadCalSeg}

\* the body of `for part in parts` (lines 37-46) raises on this segment
SegRaises(part) ==
  IF part.temp THEN part.semis # 1 \/ ~part.value
  ELSE IF part.cal THEN ~part.value
  ELSE FALSE

\* what the segment appends to TIME/TEMP (lines 37-42)
SegTemp(part, v) == IF part.temp THEN <<v>> ELSE << >>

\* what the segment appends to CAL_72 (lines 43-46)
SegCal(part, v) == IF ~part.temp /\ part.cal THEN <<v>> ELSE << >>

\* the segments of lines[skip_rows:], in file order, each with its line number
RECURSIVE Parts(_, _)
Parts(lines, n) ==
  IF n > Len(lines) THEN << >>
  ELSE [j \in 1..Len(lines[n]) |-> [seg |-> lines[n][j], line |-> n]]
       \o Parts(lines, n + 1)

RECURSIVE Collect(_, _, _)
Collect(parts, i, which) ==
  IF i > Len(parts) THEN << >>
  ELSE (IF which = "CAL_72" THEN SegCal(parts[i].seg, parts[i].line)
        ELSE SegTemp(parts[i].seg, parts[i].line))
       \o Collect(parts, i + 1, which)

\* parse_custom_format (lines 30-47)
ParseCustomFormat(lines, skip) ==
  LET parts == Parts(lines, skip + 1)
  IN IF \E i \in 1..Len(parts) : SegRaises(parts[i].seg)
     THEN Raised
     ELSE Returned([k \in {"TIME", "TEMP", "CAL_72"} |-> Collect(parts, 1, k)])

CsvCells == {Cell("1.5"), Cell("x")}

CsvNames == {"TIME", "TEMP", "CAL_72"}

CsvFiles ==
  {<<h>> \o r : h \in SeqsUpTo(CsvNames, MaxCols),
                r \in SeqsUpTo(SeqsUpTo(CsvCells, MaxCols + 1), MaxLines)}
  \cup {<< >>}

CustomFiles == SeqsUpTo(UNION {[1..k -> Segments] : k \in 1..MaxSegs}, MaxLines)

ParseIdle ==
  /\ pFile = [format |-> "csv", lines |-> << >>]
  /\ pSkip = 0
  /\ pResult = [status |-> "none", data |-> << >>]

ParseInit ==
  /\ pFile \in [format : {"csv"}, lines : CsvFiles]
               \cup [format : {"custom"}, lines : CustomFiles]
  /\ pSkip \in 0..MaxSkip
  /\ pResult = [status |-> "none", data |-> << >>]

ParseFrame ==
  UNCHANGED <<acqVars, watchVars, detVars, devVars, gridVars, pFile, pSkip>>

\* main, lines 138-139
ParseCsv ==
  /\ pResult.status = "none"
  /\ pFile.format = "csv"
  /\ pResult' = ParseCsvToDict(pFile.lines, pSkip)
  /\ ParseFrame

\* main, lines 140-141
ParseCustom ==
  /\ pResult.status = "none"
  /\ pFile.format = "custom"
  /\ pResult' = ParseCustomFormat(pFile.lines, pSkip)
  /\ ParseFrame

ParseNext ==
  \/ ParseCsv
  \/ ParseCustom

(***************************************************************************)
(* plot_sn18.py : detect_format                                            *)
(* The file is a sequence of characters; "\n" ends a line.                 *)
(***************************************************************************)
Chars == {"|", ",", "\n"}

\* file.readline(): the characters up to and including the first "\n", or
\* all of them when there is none (the empty text at end of file)
RECURSIVE ReadLine(_)
ReadLine(text) ==
  IF text = << >> THEN << >>
  ELSE IF Head(text) = "\n" THEN <<"\n">>
  ELSE <<Head(text)>> \o ReadLine(Tail(text))

\* variant that looks at the whole file (file.read())
DetectFormatWholeFile(text) ==
  IF \E i \in 1..Len(text) : text[i] = "|" THEN "custom" ELSE "csv"

\* detect_format (lines 49-55)
DetectFormat(text) ==
  LET first_line == ReadLine(text)
  IN IF \E i \in 1..Len(first_line) : first_line[i] = "|"
     THEN "custom"
     ELSE "csv"

DetectIdle ==
  /\ dText = << >>
  /\ dResult = "done"

DetectInit ==
  /\ dText \in UNION {[1..n -> Chars] : n \in 0..MaxChars}
  /\ dResult = "none"

\* main, line 136
Detect ==
  /\ dResult = "none"
  /\ dResult' = DetectFormat(dText)
  /\ UNCHANGED <<acqVars, watchVars, parseVars, devVars, gridVars, dText>>

DetectNext == Detect

(***************************************************************************)
(* plot_sn18.py : baseline and deviation series                            *)
(* A float is modelled by an exact fraction [num, den] with den > 0.       *)
(***************************************************************************)
Frac(n, d) == [num |-> n, den |-> d]

Min2(a, b) == IF a <= b THEN a ELSE b

Max2(a, b) == IF a <= b THEN b ELSE a

\* np.median(series[0:2]): the sorted slice has one or two elements and the
\* median is the mean of its middle element(s)
MedianFirstTwo(series) ==
  IF Len(series) = 1 THEN Frac(series[1], 1)
  ELSE Frac(Min2(series[1], series[2]) + Max2(series[1], series[2]), 2)

\* series - base, elementwise
MinusBase(series, base) ==
  [i \in 1..Len(series) |-> Frac(series[i] * base.den - base.num, base.den)]

\* (series / base - 1) * 1e6, elementwise (base is not zero)
PpmOf(series, base) ==
  [i \in 1..Len(series) |->
     IF base.num > 0
     THEN Frac((series[i] * base.den - base.num) * 1000000, base.num)
     ELSE Frac((base.num - series[i] * base.den) * 1000000, 0 - base.num)]

\* find_best_tempco, line 67
SearchTempDiffs(temp) == MinusBase(temp, MedianFirstTwo(temp))

\* find_best_tempco, line 68
SearchPpm72(cal) == PpmOf(cal, MedianFirstTwo(cal))

\* main, line 150
MainTempDiffFirst(temp) == MinusBase(temp, Frac(temp[1], 1))

\* main, line 151
MainTempDiffMedian(temp) == MinusBase(temp, MedianFirstTwo(temp))

\* variant of line 152 that takes the first sample as baseline
MainPpm72First(cal) == PpmOf(cal, Frac(cal[1], 1))

\* main, line 152
MainPpm72(cal) == PpmOf(cal, MedianFirstTwo(cal))

TempValues == {22, 24}

CalValues == {100, 101}

DevIdle ==
  /\ aAuto = FALSE
  /\ aTemp = << >>
  /\ aCal = << >>
  /\ vPc = "done"
  /\ sTempDiffs = << >>
  /\ sPpm = << >>
  /\ mTempDiff = << >>
  /\ mPpm = << >>

\* a dataset of 1..MaxSamples records arrives at line 146
DevInit ==
  /\ aAuto \in BOOLEAN
  /\ \E n \in 1..MaxSamples :
       /\ aTemp \in [1..n -> TempValues]
       /\ aCal \in [1..n -> CalValues]
  /\ vPc = "tempco"
  /\ sTempDiffs = << >>
  /\ sPpm = << >>
  /\ mTempDiff = << >>
  /\ mPpm = << >>

DevFrame ==
  UNCHANGED <<acqVars, watchVars, parseVars, detVars, gridVars, aAuto, aTemp,
              aCal>>

\* main, lines 146-148: find_best_tempco computes its own deviations
DevSearch ==
  /\ vPc = "tempco"
  /\ IF aAuto
     THEN /\ sTempDiffs' = SearchTempDiffs(aTemp)
          /\ sPpm' = SearchPpm72(aCal)
     ELSE UNCHANGED <<sTempDiffs, sPpm>>
  /\ vPc' = "line150"
  /\ UNCHANGED <<mTempDiff, mPpm>>
  /\ DevFrame

DevLine150 ==
  /\ vPc = "line150"
  /\ mTempDiff' = MainTempDiffFirst(aTemp)
  /\ vPc' = "line151"
  /\ UNCHANGED <<sTempDiffs, sPpm, mPpm>>
  /\ DevFrame

DevLine151 ==
  /\ vPc = "line151"
  /\ mTempDiff' = MainTempDiffMedian(aTemp)
  /\ vPc' = "line152"
  /\ UNCHANGED <<sTempDiffs, sPpm, mPpm>>
  /\ DevFrame

DevLine152 ==
  /\ vPc = "line152"
  /\ mPpm' = MainPpm72(aCal)
  /\ vPc' = "done"
  /\ UNCHANGED <<sTempDiffs, sPpm, mTempDiff>>
  /\ DevFrame

DevNext ==
  \/ DevSearch
  \/ DevLine150
  \/ DevLine151
  \/ DevLine152

(***************************************************************************)
(* plot_sn18.py : find_best_tempco, the grid search (lines 69-80)          *)
(* Units: a tempco candidate is an integer number of 0.001 ppm/K, the      *)
(* returned value an integer number of 0.0001 ppm/K, ppm_72 and corr_72    *)
(* are integers in 1/2000 ppm, temp_diffs are halves of a kelvin.  The     *)
(* records are one sampling period apart: x_dates = 1, 2, .., n.           *)
(***************************************************************************)
ArangeStart == 0 - 500
ArangeStop == 500
ArangeStep == 1

\* variant of np.arange that includes the stop value
ArangeLenInclusive(start, stop, step) == (stop - start) \div step + 1

\* np.arange(start, stop, step) has ceil((stop - start) / step) elements
ArangeLen(start, stop, step) == (stop - start + step - 1) \div step

\* its i-th element, counting from 0
ArangeAt(i) == ArangeStart + i * ArangeStep

NumCandidates == ArangeLen(ArangeStart, ArangeStop, ArangeStep)

RECURSIVE SumOver(_, _)
SumOver(f, n) == IF n = 0 THEN 0 ELSE f[n] + SumOver(f, n - 1)

\* line 73: corr_72 = ppm_72 + temp_diffs * tempco, in 1/2000 ppm
Corr72(ppm, temp, tempco) ==
  LET temp_diffs == SearchTempDiffs(temp)
  IN [i \in 1..Len(ppm) |->
        ppm[i] + ((2 * temp_diffs[i].num) \div temp_diffs[i].den) * tempco]

\* lines 74-75: np.var(corr_72 - trendline) for the least-squares line
\* through (1, w[1]) .. (n, w[n]), multiplied by the positive constant
\* n * n * (n * sum(x^2) - sum(x)^2) so that it is an integer
ResidualVariance(w) ==
  LET n == Len(w)
      X1 == SumOver([i \in 1..n |-> i], n)
      X2 == SumOver([i \in 1..n |-> i * i], n)
      W1 == SumOver(w, n)
      W2 == SumOver([i \in 1..n |-> w[i] * w[i]], n)
      XW == SumOver([i \in 1..n |-> i * w[i]], n)
      D == n * X2 - X1 * X1
      C == n * XW - X1 * W1
  IN n * D * W2 - D * W1 * W1 - C * C

Infinity == [inf |-> TRUE, v |-> 0]

Finite(v) == [inf |-> FALSE, v |-> v]

\* variant of line 76 with <=
LessOrEqual(variance, min_variance) ==
  min_variance.inf \/ variance <= min_variance.v

\* variance < min_variance (line 76)
Less(variance, min_variance) == min_variance.inf \/ variance < min_variance.v

\* round(best_tempco, 4): thousandths expressed in ten-thousandths
Round4(best_tempco) == 10 * best_tempco

GridTempValues == {22, 23}

GridPpmValues == {0 - 601, 0, 301, 1100}

GridPpmFirst == {0, 100}

\* ppm_72 arrays line 68 can produce: the first two deviate from their
\* own mean by opposite amounts
GridPpmArrays(n) ==
  {<<0 - d, d>> \o rest : d \in GridPpmFirst, rest \in [1..(n - 2) -> GridPpmValues]}

GridIdle ==
  /\ gTemp = << >>
  /\ gPpm = << >>
  /\ gPc = "done"
  /\ gIdx = 0
  /\ gBest = 0
  /\ gMin = Infinity
  /\ gResult = 0
  /\ gRun = 0
  /\ gFirst = 0

\* find_best_tempco is called with a dataset of 2..MaxSamples records;
\* lines 69-70 have set best_tempco = 0 and min_variance = inf
GridInit ==
  /\ \E n \in 2..MaxSamples :
       /\ gTemp \in [1..n -> GridTempValues]
       /\ gPpm \in GridPpmArrays(n)
  /\ gPc = "scan"
  /\ gIdx = 0
  /\ gBest = 0
  /\ gMin = Infinity
  /\ gResult = 0
  /\ gRun = 1
  /\ gFirst = 0

GridFrame ==
  UNCHANGED <<acqVars, watchVars, parseVars, detVars, devVars, gTemp, gPpm>>

\* one iteration of `for tempco in np.arange(-0.5, 0.5, 0.001)` (lines 72-78)
GridStep ==
  /\ gPc = "scan"
  /\ gIdx < NumCandidates
  /\ LET tempco == ArangeAt(gIdx)
         variance == ResidualVariance(Corr72(gPpm, gTemp, tempco))
     IN IF Less(variance, gMin)
        THEN gMin' = Finite(variance) /\ gBest' = tempco
        ELSE UNCHANGED <<gMin, gBest>>
  /\ gIdx' = gIdx + 1
  /\ UNCHANGED <<gPc, gResult, gRun, gFirst>>
  /\ GridFrame

\* return round(best_tempco, 4) (line 80)
GridReturn ==
  /\ gPc = "scan"
  /\ gIdx = NumCandidates
  /\ gResult' = Round4(gBest)
  /\ gPc' = "returned"
  /\ UNCHANGED <<gIdx, gBest, gMin, gRun, gFirst>>
  /\ GridFrame

\* find_best_tempco is called once more with the same parsed_data
GridAgain ==
  /\ gPc = "returned"
  /\ IF gRun = 1
     THEN /\ gFirst' = gResult
          /\ gRun' = 2
          /\ gIdx' = 0
          /\ gBest' = 0
          /\ gMin' = Infinity
          /\ gPc' = "scan"
     ELSE /\ gPc' = "done"
          /\ UNCHANGED <<gFirst, gRun, gIdx, gBest, gMin>>
  /\ UNCHANGED gResult
  /\ GridFrame

GridNext ==
  \/ GridStep
  \/ GridReturn
  \/ GridAgain

InitWatch == AcqIdle /\ WatchInit /\ ParseIdle /\ DetectIdle /\ DevIdle /\ GridIdle

SpecWatch == InitWatch /\ [][WatchNext]_vars

InitParse ==
  AcqIdle /\ WatchIdle /\ ParseInit /\ DetectIdle /\ DevIdle /\ GridIdle

SpecParse == InitParse /\ [][ParseNext]_vars

InitDetect ==
  AcqIdle /\ WatchIdle /\ ParseIdle /\ DetectInit /\ DevIdle /\ GridIdle

SpecDetect == InitDetect /\ [][DetectNext]_vars

InitDev ==
  AcqIdle /\ WatchIdle /\ ParseIdle /\ DetectIdle /\ DevInit /\ GridIdle

SpecDev == InitDev /\ [][DevNext]_vars

InitGrid ==
  AcqIdle /\ WatchIdle /\ ParseIdle /\ DetectIdle /\ DevIdle /\ GridInit

SpecGrid == InitGrid /\ [][GridNext]_vars

Init == AcqInit /\ WatchIdle /\ ParseIdle /\ DetectIdle /\ DevIdle /\ GridIdle

Next ==
  \/ OpenAdapter
  \/ OpenInstrument
  \/ SetupCmd
  \/ ExitInstrument
  \/ ExitAdapter
  \/ ForLoop
  \/ OpenLog
  \/ PreRead
  \/ Trigger
  \/ Wait
  \/ PostTimestamp
  \/ PostRead
  \/ DispOff
  \/ ExceptCycle
  \/ CloseLog
  \/ Status
  \/ Sleep
  \/ ExceptSetup
  \/ AllDone

Spec == Init /\ [][Next]_vars

\* the script is sequential and each of its steps ends (a command returns or
\* raises, a sleep is finite), so it keeps taking steps until it has exited
FairSpec == Init /\ [][Next]_vars /\ WF_vars(Next)

(***************************************************************************)
(* KeyboardInterrupt.  It is a BaseException: neither `except Exception`   *)
(* (lines 122 and 128) catches it.  It unwinds the with-blocks that are    *)
(* open, innermost first, and ends the process without reaching line 131.  *)
(***************************************************************************)
\* positions at which the script runs a statement of the try block
InterruptPoints ==
  {"open_adapter", "open_inst", "setup_cmd", "for", "open_log", "pre",
   "trigger", "wait", "post_ts", "post", "disp_off", "status", "sleep"}

\* the first __exit__ an exception raised now has to run
Unwind(i, a, l) ==
  IF i > 0 THEN "intr_exit_inst"
  ELSE IF a > 0 THEN "intr_exit_adapter"
  ELSE IF l > 0 THEN "intr_close_log"
  ELSE "killed"

KeyboardInterrupt ==
  /\ pc \in InterruptPoints
  /\ AcqFrame
  /\ exc' = TRUE
  /\ raisedAt' = "interrupt"
  /\ pc' = Unwind(insts, adapters, logOpen)
  /\ UNCHANGED <<cycles, qi, stage, adapters, insts, logOpen, buf, disk, trace,
                 diskBefore, okCycles, started, caught, outside, statusLines,
                 elapsed, reported>>

\* Instrument.__exit__ while the interrupt propagates
IntrExitInstrument ==
  /\ pc = "intr_exit_inst"
  /\ AcqFrame
  /\ insts' = insts - 1
  /\ pc' = Unwind(0, adapters, logOpen)
  /\ UNCHANGED <<cycles, qi, stage, adapters, logOpen, buf, disk, exc, trace,
                 raisedAt, diskBefore, okCycles, started, caught, outside,
                 statusLines, elapsed, reported>>

\* Prologix.__exit__ while the interrupt propagates
IntrExitAdapter ==
  /\ pc = "intr_exit_adapter"
  /\ AcqFrame
  /\ adapters' = adapters - 1
  /\ pc' = Unwind(0, 0, logOpen)
  /\ UNCHANGED <<cycles, qi, stage, insts, logOpen, buf, disk, exc, trace,
                 raisedAt, diskBefore, okCycles, started, caught, outside,
                 statusLines, elapsed, reported>>

\* end of `with open(...) as o1` while the interrupt propagates: the handle
\* is flushed and closed
IntrCloseLog ==
  /\ pc = "intr_close_log"
  /\ AcqFrame
  /\ disk' = disk \o buf
  /\ buf' = << >>
  /\ logOpen' = logOpen - 1
  /\ pc' = "killed"
  /\ UNCHANGED <<cycles, qi, stage, adapters, insts, exc, trace, raisedAt,
                 diskBefore, okCycles, started, caught, outside, statusLines,
                 elapsed, reported>>

NextInterrupt ==
  \/ Next
  \/ KeyboardInterrupt
  \/ IntrExitInstrument
  \/ IntrExitAdapter
  \/ IntrCloseLog

SpecInterrupt == Init /\ [][NextInterrupt]_vars

(***************************************************************************)
(* Exceptions of the statements of the loop body that are outside the      *)
(* per-cycle try: open() (line 107, in OpenLog) and time.sleep (line 126)  *)
(***************************************************************************)
\* time.sleep(timegap - 860) raises
SleepFails ==
  /\ pc = "sleep"
  /\ AcqFrame
  /\ exc' = TRUE
  /\ raisedAt' = "sleep"
  /\ outside' = TRUE
  /\ pc' = "except_setup"
  /\ UNCHANGED <<cycles, qi, stage, adapters, insts, logOpen, buf, disk, trace,
                 diskBefore, okCycles, started, caught, statusLines, elapsed,
                 reported>>

NextOuter ==
  \/ Next
  \/ SleepFails

SpecOuter == Init /\ [][NextOuter]_vars

(***************************************************************************)
(* Properties of the acquisition campaign                                  *)
(***************************************************************************)
Range(f) == {f[i] : i \in DOMAIN f}

\* the script is between two cycles, or past the last one
BetweenCycles == pc \in {"status", "sleep", "for", "all_done", "exited"}

\* the order of commands, sleeps and writes of one complete cycle
RECURSIVE PostOrder(_)
PostOrder(i) ==
  IF i > Len(PostQueries) THEN << >>
  ELSE <<PostQueries[i], "write">> \o PostOrder(i + 1)

CycleOrder ==
  PreQueries \o <<"ACAL ALL", "sleep", "write">> \o PostOrder(1) \o <<"DISP OFF">>

\* C1: a cycle in which a post-read query failed appends nothing to the log:
\* after the cycle the log equals the log before the cycle.
C1_NoPartialRecord ==
  (pc = "status" /\ raisedAt = "post") => disk = diskBefore

\* C2: after any number of cycles the number of records (lines) in the log
\* equals the number of cycles that completed without an exception.
C2_RecordsEqualSuccesses ==
  BetweenCycles => Len(Lines(disk)) = okCycles

\* C3: after any sequence of cycles every line of the log is a complete
\* record: timestamp, temperature and the eleven constants in the fixed
\* order, 13 fields, newline-terminated.
C3_SchemaStable ==
  BetweenCycles =>
    \A i \in 1..Len(Lines(disk)) :
      /\ CompleteRecord(Lines(disk)[i])
      /\ Labels(Lines(disk)[i]) = Labels(Lines(disk)[1])

\* the cycles of an ended campaign are all accounted for, and the outer
\* handler is entered only by exceptions raised outside the session block
C4_CyclesAccounted ==
  /\ pc = "except_setup" => outside
  /\ (pc \in {"all_done", "exited"} /\ ~outside) =>
       /\ started = RunHours
       /\ statusLines = RunHours
       /\ caught + okCycles = RunHours

\* C4: exceptions raised inside the per-cycle session block never reach the
\* outer handler; unless an exception is raised outside that block, the
\* campaign ends only after run_hours cycles were started, each one either
\* completed or reported by the per-cycle handler and each followed by its
\* status line; and however many cycles fail, that end is reached.
C4_AllCyclesRun ==
  /\ []C4_CyclesAccounted
  /\ <>(outside \/ (pc = "exited" /\ started = RunHours))

C4_Witness ==
  pc = "exited" /\ ~outside /\ started = RunHours /\ caught = RunHours

\* C5 (as claimed): a cycle whose pre-read failed still issues ACAL ALL,
\* waits, post-reads and appends its record.
C5_PreReadFailureTolerated ==
  (pc = "status" /\ raisedAt = "pre") =>
    /\ {"ACAL ALL", "sleep"} \subseteq Range(trace)
    /\ Len(disk) = Len(diskBefore) + Len(Schema)

\* C5 (amended): a failing pre-read query aborts the cycle: ACAL ALL is not
\* issued, there is no wait and no post-read, nothing is written to the
\* log, and the exception goes to the per-cycle handler, not to the outer one.
C5_PreReadFailureAborts ==
  raisedAt = "pre" =>
    /\ IsPrefix(trace, PreQueries)
    /\ buf = << >>
    /\ disk = diskBefore
    /\ pc # "except_setup"
    /\ (BetweenCycles => caught + okCycles = started)

C5_Witness ==
  pc = "status" /\ raisedAt = "pre" /\ caught = 1 /\ Len(trace) = 2

\* C6: at most one adapter session and one instrument session are open at
\* any time, and none is open when an exception is reported, when the log
\* is closed, during the inter-cycle sleep, or when the next scope opens.
C6_SessionScoped ==
  /\ adapters <= 1
  /\ insts <= adapters
  /\ pc \in {"open_adapter", "except_cycle", "except_setup", "close_log",
             "status", "sleep", "for", "open_log", "all_done", "exited"}
       => (adapters = 0 /\ insts = 0)

C6_Witness ==
  pc = "except_cycle" /\ raisedAt = "post" /\ adapters = 0 /\ insts = 0

\* C7: in every cycle the commands, the wait and the log writes happen in
\* the fixed order pre-read, ACAL ALL, wait, post-read; nothing is written
\* before the wait is over; and when a cycle starts, everything earlier
\* cycles wrote is in the file and their handle is closed.
C7_PhaseOrder ==
  /\ IsPrefix(trace, CycleOrder)
  /\ buf # << >> => "sleep" \in Range(trace)
  /\ \A i \in 1..Len(buf) : buf[i].val = cycles
  /\ logOpen <= 1
  /\ pc \in {"for", "open_log"} => (logOpen = 0 /\ buf = << >>)
  /\ (stage = "loop" /\ pc \in {"open_adapter", "open_inst", "pre"})
       => (buf = << >> /\ disk = diskBefore)

C7_Witness ==
  /\ pc = "pre" /\ qi = 1 /\ cycles = 1
  /\ Len(disk) = Len(Schema)

\* C8: the log is append-only: in every cycle, failing or not, the content
\* of the file before the cycle is a prefix of its content afterwards.
C8_AppendOnly == IsPrefix(diskBefore, disk)

C8_Witness ==
  /\ pc = "status" /\ raisedAt = "post"
  /\ diskBefore # << >> /\ disk # diskBefore

(***************************************************************************)
(* Properties of watch mode                                                *)
(***************************************************************************)
\* C9: in watch mode every modification event invokes the analysis callback
\* at most once (never twice), and invocations are serialized: at no time
\* are two invocations of the callback in progress.
C9_CallbackSerialized ==
  wMonitor =>
    /\ \A e \in 1..nEvents : calls[e] <= 1
    /\ Cardinality(InMain) <= 1

(***************************************************************************)
(* Properties of the parsers                                               *)
(***************************************************************************)
\* rows of a csv file that reach the dataset: non-blank, after the header
\* and the skipped rows
CsvRecordCount ==
  LET data == NonBlank(Tail(pFile.lines))
  IN IF Len(data) > pSkip THEN Len(data) - pSkip ELSE 0

\* C10: whenever a parser returns a dataset, all its series have the same
\* length (for a delimited-text log, the record count); in particular TIME,
\* TEMP and CAL_72 of a pipe-segmented log have the same length.
C10_SeriesAligned ==
  pResult.status = "ok" =>
    /\ \A k1, k2 \in DOMAIN pResult.data :
         Len(pResult.data[k1]) = Len(pResult.data[k2])
    /\ pFile.format = "csv" =>
         \A k \in DOMAIN pResult.data : Len(pResult.data[k]) = CsvRecordCount

\* for a delimited-text log every series has one entry per record
CsvSeriesAligned ==
  (pResult.status = "ok" /\ pFile.format = "csv") =>
    \A k \in DOMAIN pResult.data : Len(pResult.data[k]) = CsvRecordCount

\* TIME and TEMP of a pipe-segmented log always have the same length
CustomTimeTempAligned ==
  (pResult.status = "ok" /\ pFile.format = "custom") =>
    Len(pResult.data["TIME"]) = Len(pResult.data["TEMP"])

(***************************************************************************)
(* Properties of detect_format                                             *)
(***************************************************************************)
\* position of the first "\n" of the text, or 0
FirstNewline(text) ==
  IF \E i \in 1..Len(text) : text[i] = "\n"
  THEN CHOOSE i \in 1..Len(text) :
         text[i] = "\n" /\ \A j \in 1..(i - 1) : text[j] # "\n"
  ELSE 0

\* some "|" stands before the first "\n" (or anywhere, when there is none)
PipeInFirstLine(text) ==
  \E i \in 1..Len(text) :
    /\ text[i] = "|"
    /\ (FirstNewline(text) = 0 \/ i < FirstNewline(text))

\* C11: detect_format answers 'custom' exactly when the first line of the
\* file contains '|', and 'csv' otherwise, whatever the later lines hold
\* (an empty file and a '|' on a later line only are both 'csv').
C11_FirstLineDecides ==
  dResult # "none" =>
    dResult = (IF PipeInFirstLine(dText) THEN "custom" ELSE "csv")

\* a '|' on the second line only, answered 'csv'
C11_Witness ==
  /\ dResult = "csv"
  /\ Len(dText) >= 3 /\ dText[1] = "," /\ dText[2] = "\n" /\ dText[3] = "|"

(***************************************************************************)
(* Properties of the deviation series                                      *)
(***************************************************************************)
\* the fraction f equals the integer n
IsInt(f, n) == f.num = n * f.den

\* twice the baseline of a series: first + second sample (twice the first
\* when there is only one)
TwiceBaseline(series) ==
  IF Len(series) = 1 THEN 2 * series[1] ELSE series[1] + series[2]

Candidates == {ArangeAt(i) : i \in 0..(NumCandidates - 1)}

\* the variance line 75 computes for a candidate on the current dataset
VarianceAt(tempco) == ResidualVariance(Corr72(gPpm, gTemp, tempco))

ConstantTemp == \A i \in 1..Len(gTemp) : gTemp[i] = gTemp[1]

\* two candidates give the same variance, and that variance is the least
TiedMinimum ==
  \E j \in Candidates :
    /\ j # ArangeStart
    /\ VarianceAt(j) = VarianceAt(j - ArangeStep)
    /\ \A m \in Candidates : VarianceAt(j) <= VarianceAt(m)

\* C12: a later candidate replaces the best one only when its variance is
\* strictly smaller, so the value returned is the lowest candidate among
\* those of least variance; when TEMP is constant every candidate gives the
\* same variance and the search returns -0.5.
C12_LowestMinimiserWins ==
  gPc = "returned" =>
    /\ \E k \in Candidates :
         /\ gResult = Round4(k)
         /\ \A j \in Candidates :
              /\ VarianceAt(k) <= VarianceAt(j)
              /\ j < k => VarianceAt(k) < VarianceAt(j)
    /\ ConstantTemp => gResult = Round4(ArangeStart)

\* a search over a dataset of three records with a tie that is not the
\* all-equal one, and one over a dataset whose TEMP is constant
C12_Witness ==
  /\ gPc = "returned"
  /\ Len(gTemp) > 2
  /\ ~ ConstantTemp
  /\ TiedMinimum
  /\ gResult # Round4(ArangeStart)

C12_WitnessConstant ==
  gPc = "returned" /\ Len(gTemp) > 2 /\ ConstantTemp

SetupFailed == stage = "setup" /\ raisedAt # "none"

C15_SetupFailureState ==
  SetupFailed =>
    /\ pc \in {"exit_inst", "exit_adapter", "except_setup", "all_done", "exited"}
    /\ started = 0 /\ okCycles = 0
    /\ logOpen = 0 /\ buf = << >> /\ disk = << >>
    /\ pc \in {"except_setup", "all_done", "exited"}
         => (adapters = 0 /\ insts = 0)
    /\ pc \in {"all_done", "exited"} => (reported = 1 /\ ~ exc)

\* C15: when a step of the initial setup raises, the setup session is
\* released, "Error in initial setup" is printed once, no cycle is started,
\* the log file is never opened or written, and the process ends.
C15_SetupFailureEnds ==
  /\ [] C15_SetupFailureState
  /\ (SetupFailed ~> (pc = "exited" /\ SetupFailed))

\* the third setup command failed and the process has ended
C15_Witness ==
  /\ pc = "exited"
  /\ stage = "setup"
  /\ raisedAt = "setup_cmd"
  /\ reported = 1
  /\ started = 0


(***************************************************************************)
(* The log of the acquisition script as parse_csv_to_dict reads it         *)
(***************************************************************************)
\* the characters files.write() puts in the file for one field: the
\* timestamp or the instrument's reply, a number
FieldText(f) == ToString(f.val)

\* csv.DictReader on the log: the cells of the first line are the field
\* names, the cells of every later line are values
ReadLog(text) ==
  LET lines == Lines(text)
  IN [i \in 1..Len(lines) |->
        [j \in 1..Len(lines[i]) |->
           IF i = 1 THEN FieldText(lines[i][j])
           ELSE Cell(FieldText(lines[i][j]))]]

\* C16: the log written by the campaign starts with a header line naming the
\* fields (TIME, TEMP and CAL_72 among them), every later line is a complete
\* record, and parse_csv_to_dict reads the log into series named TIME, TEMP
\* and CAL_72.  Stated for the campaigns in which no cycle has failed.
C16_LogHasHeader ==
  (BetweenCycles /\ disk # << >> /\ caught = 0) =>
    LET rows == ReadLog(disk)
        parsed == ParseCsvToDict(rows, 0)
    IN /\ CsvNames \subseteq Range(rows[1])
       /\ \A i \in 2..Len(Lines(disk)) : CompleteRecord(Lines(disk)[i])
       /\ parsed.status = "ok"
       /\ CsvNames \subseteq DOMAIN parsed.data


\* the inter-cycle sleep of line 126 always follows the status line
SleepAfterEveryCycle ==
  [][pc = "status" => (pc' = "sleep" /\ elapsed' = elapsed)]_vars

\* C17: when the inter-cycle sleep is over, timegap seconds have passed
\* since the cycle started, whether the cycle succeeded or failed (the
\* commands and the log writes taking no time).
C17_FixedPeriod ==
  (pc = "for" /\ started > 0) => elapsed = timegap


\* the log is open from `with open` to the end of its block only
LogOpenInsideCycle ==
  /\ logOpen <= 1
  /\ pc \in {"status", "sleep", "for", "open_log", "all_done", "exited"}
       => (logOpen = 0 /\ buf = << >>)
  /\ stage = "setup" => logOpen = 0

\* C18: the log is closed and flushed before the status line and the
\* inter-cycle sleep, and at every moment the content of the file is a
\* sequence of complete records.
C18_ReaderSeesCompleteRecords ==
  /\ LogOpenInsideCycle
  /\ \A i \in 1..Len(Lines(disk)) : CompleteRecord(Lines(disk)[i])


(***************************************************************************)
(* Properties of an interrupted campaign and of the outer handler          *)
(***************************************************************************)
\* the sessions and the log are released before an interrupted process ends
InterruptReleases ==
  pc = "killed" => (adapters = 0 /\ insts = 0 /\ logOpen = 0 /\ buf = << >>)

\* C19: when a campaign in which no cycle has failed is interrupted, the
\* sessions are released before the process ends and the log holds exactly
\* one complete record for each cycle that finished before the interruption
\* and no partial record.
C19_InterruptKeepsLog ==
  (pc = "killed" /\ caught = 0) =>
    /\ adapters = 0 /\ insts = 0
    /\ \A i \in 1..Len(Lines(disk)) : CompleteRecord(Lines(disk)[i])
    /\ Len(Lines(disk)) = okCycles

\* an exception was raised by open() of the log or by the inter-cycle sleep
OutsideSessionBlock == raisedAt \in {"open_log", "sleep"}

C20_OuterState ==
  OutsideSessionBlock =>
    /\ pc \in {"except_setup", "all_done", "exited"}
    /\ outside
    /\ adapters = 0 /\ insts = 0 /\ logOpen = 0
    /\ pc \in {"all_done", "exited"} => reported = 1

\* C20: an exception raised by opening the log or by the inter-cycle sleep
\* goes to the outer handler and not to the per-cycle one, is reported as a
\* setup error, no later cycle is started, and the log stays as it was.
C20_OutsideGoesToOuterHandler ==
  /\ [] C20_OuterState
  /\ [][(OutsideSessionBlock \/ OutsideSessionBlock')
          => (disk' = disk /\ started' = started /\ caught' = caught
              /\ okCycles' = okCycles)]_vars

\* opening the log failed after a record was written and before the last
\* cycle of the campaign, and the process has ended
C20_Witness ==
  /\ pc = "exited"
  /\ raisedAt = "open_log"
  /\ disk # << >>
  /\ started < RunHours
  /\ reported = 1

C20_WitnessSleep ==
  pc = "exited" /\ raisedAt = "sleep" /\ started < RunHours /\ reported = 1

=============================================================================
